---- MODULE Spec2Model ----
(***************************************************************************)
(* KV Store Simulator (src/app.py): an in-memory key/value store kept in   *)
(* the UI session, with a TTL of 60 s, an on-demand cleanup pass and a     *)
(* status table.  The script runs top to bottom on every rerun: the SET /  *)
(* DEL form handlers, the cleanup button, the GET panel and the status     *)
(* table, in that order.                                                   *)
(*                                                                         *)
(* Time is counted in ticks of 1/TicksPerSecond second, so that the float  *)
(* clock of the program has fractional values and int() truncates.  Texts  *)
(* (the key field, the JSON text area) are sequences of one-character      *)
(* strings, and json.loads / json.dumps / str.strip work on them.          *)
(*                                                                         *)
(* Each handler is one step and reads the clock once; the clock never goes *)
(* back and may advance between any two steps of a rerun.  At most one     *)
(* button is pressed in a rerun.  JSON objects hold integer members only.  *)
(***************************************************************************)
EXTENDS Integers, Sequences, FiniteSets, TLC

TTL_SECONDS == 60

\* resolution of the clock: ticks per second
TicksPerSecond == 2

\* number of times the clock may advance in one behaviour
MaxAdvances == 3

-----------------------------------------------------------------------------
(* Characters and texts *)

Whitespace == {" ", "\t", "\n"}

Digits == {"0", "1", "2", "3", "4", "5", "6", "7", "8", "9"}

DigitValue(c) ==
    CASE c = "0" -> 0 [] c = "1" -> 1 [] c = "2" -> 2 [] c = "3" -> 3
      [] c = "4" -> 4 [] c = "5" -> 5 [] c = "6" -> 6 [] c = "7" -> 7
      [] c = "8" -> 8 [] c = "9" -> 9

DigitChar(n) ==
    CASE n = 0 -> "0" [] n = 1 -> "1" [] n = 2 -> "2" [] n = 3 -> "3"
      [] n = 4 -> "4" [] n = 5 -> "5" [] n = 6 -> "6" [] n = 7 -> "7"
      [] n = 8 -> "8" [] n = 9 -> "9"

\* Unicode code point of the characters the texts of the model use
CodePoint(c) ==
    CASE c = "\t" -> 9 [] c = "\n" -> 10 [] c = " " -> 32 [] c = "\"" -> 34
      [] c = "," -> 44 [] c = ":" -> 58
      [] c \in Digits -> 48 + DigitValue(c)
      [] c = "A" -> 65 [] c = "B" -> 66 [] c = "[" -> 91 [] c = "]" -> 93
      [] c = "a" -> 97 [] c = "b" -> 98 [] c = "x" -> 120
      [] c = "{" -> 123 [] c = "}" -> 125

\* number of bytes of one character in UTF-8
Utf8Len(c) ==
    IF CodePoint(c) < 128 THEN 1
    ELSE IF CodePoint(c) < 2048 THEN 2
    ELSE IF CodePoint(c) < 65536 THEN 3 ELSE 4

RECURSIVE encode_utf8_len(_)
encode_utf8_len(s) ==
    IF s = <<>> THEN 0 ELSE Utf8Len(Head(s)) + encode_utf8_len(Tail(s))

RECURSIVE lstrip(_)
lstrip(s) ==
    IF s # <<>> /\ Head(s) \in Whitespace THEN lstrip(Tail(s)) ELSE s

RECURSIVE rstrip(_)
rstrip(s) ==
    IF s # <<>> /\ s[Len(s)] \in Whitespace
    THEN rstrip(SubSeq(s, 1, Len(s) - 1)) ELSE s

\* mutant of strip: only the leading whitespace is removed
strip_leading_only(s) == lstrip(s)

\* str.strip()
strip(s) == rstrip(lstrip(s))

\* lexicographic order of two strings by code point (Python's str <)
RECURSIVE StrLess(_, _)
StrLess(a, b) ==
    IF b = <<>> THEN FALSE
    ELSE IF a = <<>> THEN TRUE
    ELSE IF CodePoint(Head(a)) # CodePoint(Head(b))
         THEN CodePoint(Head(a)) < CodePoint(Head(b))
         ELSE StrLess(Tail(a), Tail(b))

-----------------------------------------------------------------------------
(* JSON values: a dict is a sequence of items [k, v] in insertion order    *)
(* with distinct keys, a list is a sequence of numbers.                    *)

JSONDecodeError == [type |-> "JSONDecodeError"]

MkDict(items) == [type |-> "dict", items |-> items]
MkList(items) == [type |-> "list", items |-> items]
MkInt(n) == [type |-> "int", n |-> n]

isinstance_dict(v) == v.type = "dict"

\* d[k] = v on a dict's items: an existing key keeps its position
DictSetItem(items, k, v) ==
    IF \E i \in 1..Len(items) : items[i].k = k
    THEN [i \in 1..Len(items) |->
              IF items[i].k = k THEN [k |-> k, v |-> v] ELSE items[i]]
    ELSE Append(items, [k |-> k, v |-> v])

Fail == [ok |-> FALSE]

Peek(s, i) == IF i <= Len(s) THEN s[i] ELSE "EOF"

RECURSIVE SkipWs(_, _)
SkipWs(s, i) ==
    IF i <= Len(s) /\ s[i] \in Whitespace THEN SkipWs(s, i + 1) ELSE i

RECURSIVE ScanDigits(_, _, _)
ScanDigits(s, i, acc) ==
    IF i <= Len(s) /\ s[i] \in Digits
    THEN ScanDigits(s, i + 1, 10 * acc + DigitValue(s[i]))
    ELSE [ok |-> TRUE, val |-> acc, next |-> i]

\* a JSON integer: 0, or a non-zero digit followed by digits
ParseNumber(s, i) ==
    IF Peek(s, i) \notin Digits THEN Fail
    ELSE IF s[i] = "0" THEN [ok |-> TRUE, val |-> 0, next |-> i + 1]
    ELSE ScanDigits(s, i, 0)

RECURSIVE ScanString(_, _, _)
ScanString(s, i, acc) ==
    IF i > Len(s) THEN Fail
    ELSE IF s[i] = "\"" THEN [ok |-> TRUE, val |-> acc, next |-> i + 1]
    ELSE IF CodePoint(s[i]) < 32 THEN Fail
    ELSE ScanString(s, i + 1, Append(acc, s[i]))

\* a JSON string without escapes
ParseString(s, i) ==
    IF Peek(s, i) # "\"" THEN Fail ELSE ScanString(s, i + 1, <<>>)

\* members of an object, i at the first character of a member
RECURSIVE ParseMembers(_, _, _)
ParseMembers(s, i, acc) ==
    LET key == ParseString(s, i)
    IN  IF ~key.ok THEN Fail
        ELSE LET c == SkipWs(s, key.next)
             IN  IF Peek(s, c) # ":" THEN Fail
                 ELSE LET val == ParseNumber(s, SkipWs(s, c + 1))
                      IN  IF ~val.ok THEN Fail
                          ELSE LET e == SkipWs(s, val.next)
                                   items == DictSetItem(acc, key.val, val.val)
                               IN  IF Peek(s, e) = "}"
                                   THEN [ok |-> TRUE, val |-> MkDict(items),
                                         next |-> e + 1]
                                   ELSE IF Peek(s, e) = ","
                                   THEN ParseMembers(s, SkipWs(s, e + 1), items)
                                   ELSE Fail

ParseObject(s, i) ==
    LET j == SkipWs(s, i + 1)
    IN  IF Peek(s, j) = "}"
        THEN [ok |-> TRUE, val |-> MkDict(<<>>), next |-> j + 1]
        ELSE ParseMembers(s, j, <<>>)

RECURSIVE ParseElements(_, _, _)
ParseElements(s, i, acc) ==
    LET val == ParseNumber(s, i)
    IN  IF ~val.ok THEN Fail
        ELSE LET e == SkipWs(s, val.next)
                 items == Append(acc, val.val)
             IN  IF Peek(s, e) = "]"
                 THEN [ok |-> TRUE, val |-> MkList(items), next |-> e + 1]
                 ELSE IF Peek(s, e) = ","
                 THEN ParseElements(s, SkipWs(s, e + 1), items)
                 ELSE Fail

ParseArray(s, i) ==
    LET j == SkipWs(s, i + 1)
    IN  IF Peek(s, j) = "]"
        THEN [ok |-> TRUE, val |-> MkList(<<>>), next |-> j + 1]
        ELSE ParseElements(s, j, <<>>)

ParseValue(s, i) ==
    CASE Peek(s, i) = "{" -> ParseObject(s, i)
      [] Peek(s, i) = "[" -> ParseArray(s, i)
      [] Peek(s, i) \in Digits ->
            LET n == ParseNumber(s, i)
            IN  [ok |-> TRUE, val |-> MkInt(n.val), next |-> n.next]
      [] OTHER -> Fail

\* json.loads(text): the parsed value, or JSONDecodeError
json_loads(s) ==
    LET r == ParseValue(s, SkipWs(s, 1))
    IN  IF r.ok /\ SkipWs(s, r.next) = Len(s) + 1 THEN r.val
        ELSE JSONDecodeError

\* str(n) of a natural number
RECURSIVE IntToStr(_)
IntToStr(n) ==
    IF n < 10 THEN <<DigitChar(n)>>
    ELSE Append(IntToStr(n \div 10), DigitChar(n % 10))

\* sorted(items) by key, as sort_keys=True makes json.dumps do
RECURSIVE InsertItem(_, _)
InsertItem(sorted, it) ==
    IF sorted = <<>> THEN <<it>>
    ELSE IF StrLess(it.k, Head(sorted).k) THEN <<it>> \o sorted
    ELSE <<Head(sorted)>> \o InsertItem(Tail(sorted), it)

\* mutant of SortItems: sort_keys is left out, the items stay in dict order
SortItems_unsorted(items) == items

RECURSIVE SortItems(_)
SortItems(items) ==
    IF items = <<>> THEN <<>>
    ELSE InsertItem(SortItems(SubSeq(items, 1, Len(items) - 1)),
                    items[Len(items)])

RECURSIVE DumpItems(_)
DumpItems(items) ==
    IF items = <<>> THEN <<>>
    ELSE <<"\"">> \o Head(items).k \o <<"\"", ":", " ">>
         \o IntToStr(Head(items).v)
         \o (IF Len(items) > 1 THEN <<",", " ">> ELSE <<>>)
         \o DumpItems(Tail(items))

\* json.dumps(value, ensure_ascii=False, sort_keys=True) of a dict
json_dumps(value) == <<"{">> \o DumpItems(SortItems(value.items)) \o <<"}">>

\* value_size_bytes(value): json.dumps cannot fail on a dict that json.loads
\* produced, so the str(value) fallback is never taken
value_size_bytes(value) == encode_utf8_len(json_dumps(value))

-----------------------------------------------------------------------------
(* Inputs typed into the form: the key field and the JSON text area *)

KeyTexts ==
    { <<>>,
      <<" ">>,
      <<" ", "A", "\t">>,
      <<"B">> }

ValueTexts ==
    { <<"{", "}">>,
      <<" ", "{", "\"", "a", "\"", ":", "1", "}", "\n">>,
      <<"{", "\"", "b", "\"", ":", "2", ",", "\"", "a", "\"", ":", "1", "}">>,
      <<"[", "1", "]">>,
      <<"{", "\"", "a", "\"", ":", "}">> }

\* how far the clock moves between two steps: one tick, or a whole TTL
Delays == {1, TTL_SECONDS * TicksPerSecond}

None == [type |-> "None"]

\* in last_set: the key was removed by DEL after its last SET
Deleted == [type |-> "Deleted"]

-----------------------------------------------------------------------------
VARIABLES
    kv_store,    \* st.session_state["kv_store"]: entries [k, value, created_at]
                 \* in the insertion order of the dict
    clock,       \* time.time(), in ticks
    advances,    \* how many times the clock has advanced
    pc,          \* the part of the script the current rerun is about to run
    msg,         \* what the form / cleanup part of this rerun reported
    get_out,     \* what the GET panel of this rerun showed
    status_df,   \* the status table of this rerun
    last_set,    \* history: per key, the value and time of its last successful
                 \* SET, or Deleted when a DEL removed the key after it
    revived,     \* history: the keys whose expired entry the SET of this rerun
                 \* replaced (none or one)
    size_in,     \* size accounting alone: the two JSON texts to measure
    size_out     \* size accounting alone: what value_size_bytes returned

vars == <<kv_store, clock, advances, pc, msg, get_out, status_df, last_set,
          revived, size_in, size_out>>

\* now()
now == clock

\* int(x) of the float x = n / d: truncation toward zero
IntTrunc(n, d) == IF n >= 0 THEN n \div d ELSE -((-n) \div d)

Max(a, b) == IF a >= b THEN a ELSE b

\* mutant of is_expired: the comparison is not strict
is_expired_ge(created_at, ttl) == (now - created_at) >= ttl * TicksPerSecond

\* is_expired(created_at, ttl): ttl in seconds, the times in ticks
is_expired(created_at, ttl) == (now - created_at) > ttl * TicksPerSecond

(* the dict operations the script uses on kv_store *)
Keys(store) == {store[i].k : i \in 1..Len(store)}

Contains(store, k) == k \in Keys(store)

GetItem(store, k) ==
    LET i == CHOOSE i \in 1..Len(store) : store[i].k = k
    IN  [value |-> store[i].value, created_at |-> store[i].created_at]

\* mutant of SetItem: store.setdefault(k, payload), an existing key keeps
\* its old payload
SetItem_setdefault(store, k, payload) ==
    IF Contains(store, k) THEN store
    ELSE Append(store, [k |-> k, value |-> payload.value,
                        created_at |-> payload.created_at])

\* mutant of SetItem: an existing key gets the new value and keeps its old
\* created_at
SetItem_keep_created_at(store, k, payload) ==
    IF Contains(store, k)
    THEN [i \in 1..Len(store) |->
             IF store[i].k = k
             THEN [store[i] EXCEPT !.value = payload.value] ELSE store[i]]
    ELSE Append(store, [k |-> k, value |-> payload.value,
                        created_at |-> payload.created_at])

\* store[k] = payload: an existing key keeps its place, a new one goes last
SetItem(store, k, payload) ==
    LET e == [k |-> k, value |-> payload.value,
              created_at |-> payload.created_at]
    IN  IF Contains(store, k)
        THEN [i \in 1..Len(store) |-> IF store[i].k = k THEN e ELSE store[i]]
        ELSE Append(store, e)

\* mutant of DelItem: the oldest entry of the dict is removed, whatever k
DelItem_first(store, k) == Tail(store)

\* del store[k]
DelItem(store, k) ==
    LET Other(e) == e.k # k IN SelectSeq(store, Other)

\* mutant of cleanup_expired: the last expired key is counted and not deleted
cleanup_expired_all_but_last(ttl) ==
    LET Expired(e) == is_expired(e.created_at, ttl)
        expired_keys == SelectSeq(kv_store, Expired)
        Kept(e) == \/ ~Expired(e)
                   \/ e.k = expired_keys[Len(expired_keys)].k
    IN  [store |-> SelectSeq(kv_store, Kept), removed |-> Len(expired_keys)]

\* mutant of cleanup_expired: only the first expired key is deleted
cleanup_expired_first_only(ttl) ==
    LET Expired(e) == is_expired(e.created_at, ttl)
        expired_keys == SelectSeq(kv_store, Expired)
        Kept(e) == expired_keys = <<>> \/ e.k # Head(expired_keys).k
    IN  [store |-> SelectSeq(kv_store, Kept), removed |-> Len(expired_keys)]

\* cleanup_expired(ttl): the store it leaves and the count it returns
cleanup_expired(ttl) ==
    LET Expired(e) == is_expired(e.created_at, ttl)
        Kept(e) == ~Expired(e)
        expired_keys == SelectSeq(kv_store, Expired)
    IN  [store |-> SelectSeq(kv_store, Kept), removed |-> Len(expired_keys)]

\* mutant of StatusRow: restante_seg is int(ttl - age), without max(0, .)
StatusRow_no_max(e, t, ttl) ==
    LET age == t - e.created_at
        expired == age > ttl * TicksPerSecond
    IN  [cliente_id |-> e.k,
         estado |-> IF expired THEN "Expirada" ELSE "Activa",
         edad_seg |-> IntTrunc(age, TicksPerSecond),
         restante_seg |-> IntTrunc(ttl * TicksPerSecond - age, TicksPerSecond),
         size_bytes |-> value_size_bytes(e.value),
         created_at_epoch |-> IntTrunc(e.created_at, TicksPerSecond)]

\* mutant of StatusRow: the state is decided on int(age), the whole seconds
StatusRow_whole_seconds(e, t, ttl) ==
    LET age == t - e.created_at
        expired == IntTrunc(age, TicksPerSecond) > ttl
    IN  [cliente_id |-> e.k,
         estado |-> IF expired THEN "Expirada" ELSE "Activa",
         edad_seg |-> IntTrunc(age, TicksPerSecond),
         restante_seg |->
             Max(0, IntTrunc(ttl * TicksPerSecond - age, TicksPerSecond)),
         size_bytes |-> value_size_bytes(e.value),
         created_at_epoch |-> IntTrunc(e.created_at, TicksPerSecond)]

\* one row of the status table, for the time snapshot t
StatusRow(e, t, ttl) ==
    LET age == t - e.created_at
        expired == age > ttl * TicksPerSecond
    IN  [cliente_id |-> e.k,
         estado |-> IF expired THEN "Expirada" ELSE "Activa",
         edad_seg |-> IntTrunc(age, TicksPerSecond),
         restante_seg |->
             Max(0, IntTrunc(ttl * TicksPerSecond - age, TicksPerSecond)),
         size_bytes |-> value_size_bytes(e.value),
         created_at_epoch |-> IntTrunc(e.created_at, TicksPerSecond)]

\* mutant of RowBefore: both columns ascending
RowBefore_ascending(a, b) ==
    \/ a.estado = "Activa" /\ b.estado = "Expirada"
    \/ a.estado = b.estado /\ a.size_bytes < b.size_bytes

\* row a sorts strictly before row b under
\* sort_values(["estado", "size_bytes"], ascending=[True, False])
RowBefore(a, b) ==
    \/ a.estado = "Activa" /\ b.estado = "Expirada"
    \/ a.estado = b.estado /\ a.size_bytes > b.size_bytes

\* the sort on two columns is a stable lexsort: rows with equal sort keys
\* stay in their original order, that of the dict
RECURSIVE InsertRow(_, _)
InsertRow(sorted, r) ==
    IF sorted = <<>> THEN <<r>>
    ELSE IF RowBefore(r, Head(sorted)) THEN <<r>> \o sorted
    ELSE <<Head(sorted)>> \o InsertRow(Tail(sorted), r)

RECURSIVE sort_values(_)
sort_values(rows) ==
    IF rows = <<>> THEN <<>>
    ELSE InsertRow(sort_values(SubSeq(rows, 1, Len(rows) - 1)),
                   rows[Len(rows)])

\* build_status_table(ttl)
build_status_table(ttl) ==
    LET t == now
        rows == [i \in 1..Len(kv_store) |-> StatusRow(kv_store[i], t, ttl)]
    IN  sort_values(rows)

-----------------------------------------------------------------------------
StoreKeys == {strip(k) : k \in KeyTexts} \ {<<>>}

Init ==
    /\ kv_store = <<>>
    /\ clock = 0
    /\ advances = 0
    /\ pc = "form"
    /\ msg = None
    /\ get_out = None
    /\ status_df = None
    /\ last_set = [k \in StoreKeys |-> None]
    /\ revived = {}
    /\ size_in = None
    /\ size_out = None

\* what a form handler reports: the fields it read and the message it shows
\* (error, warning or success)
Report(op, key, value_text, level, what) ==
    [op |-> op, key |-> key, value_text |-> value_text,
     level |-> level, what |-> what]

\* mutant of SetOutcome: the parsed value is stored without the check that
\* it is a dict
SetOutcome_any_json(key, value_text) ==
    LET k == strip(key)
        parsed_value == json_loads(value_text)
    IN  IF k = <<>>
        THEN [store |-> kv_store, written |-> FALSE,
              msg |-> Report("SET", key, value_text, "error", "empty key")]
        ELSE IF parsed_value = JSONDecodeError
        THEN [store |-> kv_store, written |-> FALSE,
              msg |-> Report("SET", key, value_text, "error", "invalid JSON")]
        ELSE [store |-> SetItem(kv_store, k,
                           [value |-> parsed_value, created_at |-> now]),
              written |-> TRUE,
              msg |-> Report("SET", key, value_text, "success", "saved")]

\* mutant of SetOutcome: the emptiness check is made on the key as typed,
\* before it is stripped
SetOutcome_raw_key(key, value_text) ==
    LET k == strip(key)
        parsed_value == json_loads(value_text)
    IN  IF key = <<>>
        THEN [store |-> kv_store, written |-> FALSE,
              msg |-> Report("SET", key, value_text, "error", "empty key")]
        ELSE IF parsed_value = JSONDecodeError
        THEN [store |-> kv_store, written |-> FALSE,
              msg |-> Report("SET", key, value_text, "error", "invalid JSON")]
        ELSE IF ~isinstance_dict(parsed_value)
        THEN [store |-> kv_store, written |-> FALSE,
              msg |-> Report("SET", key, value_text, "error", "not an object")]
        ELSE [store |-> SetItem(kv_store, k,
                           [value |-> parsed_value, created_at |-> now]),
              written |-> TRUE,
              msg |-> Report("SET", key, value_text, "success", "saved")]

\* the store and the report the "Guardar (SET)" branch produces
SetOutcome(key, value_text) ==
    LET k == strip(key)
        parsed_value == json_loads(value_text)
    IN  IF k = <<>>
        THEN [store |-> kv_store, written |-> FALSE,
              msg |-> Report("SET", key, value_text, "error", "empty key")]
        ELSE IF parsed_value = JSONDecodeError
        THEN [store |-> kv_store, written |-> FALSE,
              msg |-> Report("SET", key, value_text, "error", "invalid JSON")]
        ELSE IF ~isinstance_dict(parsed_value)
        THEN [store |-> kv_store, written |-> FALSE,
              msg |-> Report("SET", key, value_text, "error", "not an object")]
        ELSE [store |-> SetItem(kv_store, k,
                           [value |-> parsed_value, created_at |-> now]),
              written |-> TRUE,
              msg |-> Report("SET", key, value_text, "success", "saved")]

\* mutant of DelOutcome: kv_store.pop(k, None), a missing key is deleted
\* silently and reported as a success
DelOutcome_pop(key) ==
    LET k == strip(key)
    IN  IF k = <<>>
        THEN [store |-> kv_store, deleted |-> FALSE,
              msg |-> Report("DEL", key, <<>>, "error", "empty key")]
        ELSE [store |-> DelItem(kv_store, k), deleted |-> Contains(kv_store, k),
              msg |-> Report("DEL", key, <<>>, "success", "deleted")]

\* the store and the report the "Borrar clave (DEL)" branch produces
DelOutcome(key) ==
    LET k == strip(key)
    IN  IF k = <<>>
        THEN [store |-> kv_store, deleted |-> FALSE,
              msg |-> Report("DEL", key, <<>>, "error", "empty key")]
        ELSE IF ~Contains(kv_store, k)
        THEN [store |-> kv_store, deleted |-> FALSE,
              msg |-> Report("DEL", key, <<>>, "warning", "no such key")]
        ELSE [store |-> DelItem(kv_store, k), deleted |-> TRUE,
              msg |-> Report("DEL", key, <<>>, "success", "deleted")]

\* history: a SET of k now would replace an entry older than the TTL
Revives(k) ==
    /\ Contains(kv_store, k)
    /\ is_expired(GetItem(kv_store, k).created_at, TTL_SECONDS)

\* a rerun with "Guardar (SET)" pressed: the cleanup button is not pressed
SubmitSet(key, value_text) ==
    LET r == SetOutcome(key, value_text)
    IN  /\ pc = "form"
        /\ kv_store' = r.store
        /\ msg' = r.msg
        /\ last_set' = IF r.written
                       THEN [last_set EXCEPT ![strip(key)] =
                                [value |-> json_loads(value_text), at |-> now]]
                       ELSE last_set
        /\ revived' = IF r.written /\ Revives(strip(key))
                      THEN {strip(key)} ELSE {}
        /\ pc' = "get"
        /\ UNCHANGED <<clock, advances, get_out, status_df>>
        /\ UNCHANGED <<size_in, size_out>>

\* a rerun with "Borrar clave (DEL)" pressed
DeleteKey(key) ==
    LET r == DelOutcome(key)
    IN  /\ pc = "form"
        /\ kv_store' = r.store
        /\ msg' = r.msg
        /\ last_set' = IF r.deleted
                       THEN [last_set EXCEPT ![strip(key)] = Deleted]
                       ELSE last_set
        /\ pc' = "get"
        /\ UNCHANGED <<clock, advances, get_out, status_df>>
        /\ UNCHANGED <<revived, size_in, size_out>>

\* a rerun in which neither form button is pressed
NoSubmit ==
    /\ pc = "form"
    /\ pc' = "cleanup"
    /\ UNCHANGED <<kv_store, clock, advances, msg, get_out, status_df, last_set>>
    /\ UNCHANGED <<revived, size_in, size_out>>

\* the "Limpiar expiradas" button is pressed
CleanupButton ==
    LET r == cleanup_expired(TTL_SECONDS)
    IN  /\ pc = "cleanup"
        /\ kv_store' = r.store
        /\ msg' = Report("CLEANUP", <<>>, <<>>,
                          IF r.removed > 0 THEN "success" ELSE "info",
                          r.removed)
        /\ pc' = "get"
        /\ UNCHANGED <<clock, advances, get_out, status_df, last_set>>
        /\ UNCHANGED <<revived, size_in, size_out>>

\* the cleanup button is not pressed
NoCleanup ==
    /\ pc = "cleanup"
    /\ pc' = "get"
    /\ UNCHANGED <<kv_store, clock, advances, msg, get_out, status_df, last_set>>
    /\ UNCHANGED <<revived, size_in, size_out>>

\* mutant of GetOutcome: an expired entry is reported as missing
GetOutcome_hide_expired(search_key) ==
    LET k == strip(search_key)
    IN  IF k = <<>>
        THEN [k |-> k, level |-> "info", found |-> FALSE, at |-> now]
        ELSE IF Contains(kv_store, k)
                /\ ~is_expired(GetItem(kv_store, k).created_at, TTL_SECONDS)
        THEN LET payload == GetItem(kv_store, k)
             IN  [k |-> k,
                  level |-> "success",
                  found |-> TRUE,
                  expired |-> FALSE,
                  val |-> payload.value,
                  age |-> IntTrunc(now - payload.created_at, TicksPerSecond),
                  size |-> value_size_bytes(payload.value),
                  at |-> now]
        ELSE [k |-> k, level |-> "warning", found |-> FALSE, at |-> now]

\* what the GET panel shows for the text of the search box
GetOutcome(search_key) ==
    LET k == strip(search_key)
    IN  IF k = <<>>
        THEN [k |-> k, level |-> "info", found |-> FALSE, at |-> now]
        ELSE IF Contains(kv_store, k)
        THEN LET payload == GetItem(kv_store, k)
                 expired == is_expired(payload.created_at, TTL_SECONDS)
             IN  [k |-> k,
                  level |-> IF expired THEN "warning" ELSE "success",
                  found |-> TRUE,
                  expired |-> expired,
                  val |-> payload.value,
                  age |-> IntTrunc(now - payload.created_at, TicksPerSecond),
                  size |-> value_size_bytes(payload.value),
                  at |-> now]
        ELSE [k |-> k, level |-> "warning", found |-> FALSE, at |-> now]

\* the GET panel
Get(search_key) ==
    /\ pc = "get"
    /\ get_out' = GetOutcome(search_key)
    /\ pc' = "table"
    /\ UNCHANGED <<kv_store, clock, advances, msg, status_df, last_set>>
    /\ UNCHANGED <<revived, size_in, size_out>>

\* status_df = build_status_table(TTL_SECONDS), which ends the rerun
BuildTable ==
    /\ pc = "table"
    /\ status_df' = [rows |-> build_status_table(TTL_SECONDS), at |-> now]
    /\ pc' = "done"
    /\ UNCHANGED <<kv_store, clock, advances, msg, get_out, last_set>>
    /\ UNCHANGED <<revived, size_in, size_out>>

\* the next rerun starts: the script runs from the top with the store of the
\* session, and the page of the previous rerun is discarded
Rerun ==
    /\ pc = "done"
    /\ pc' = "form"
    /\ msg' = None
    /\ get_out' = None
    /\ status_df' = None
    /\ revived' = {}
    /\ UNCHANGED <<kv_store, clock, advances, last_set>>
    /\ UNCHANGED <<size_in, size_out>>

\* time passes
Advance(d) ==
    /\ advances < MaxAdvances
    /\ clock' = clock + d
    /\ advances' = advances + 1
    /\ UNCHANGED <<kv_store, pc, msg, get_out, status_df, last_set>>
    /\ UNCHANGED <<revived, size_in, size_out>>

Next ==
    \/ \E key \in KeyTexts, value_text \in ValueTexts : SubmitSet(key, value_text)
    \/ \E key \in KeyTexts : DeleteKey(key)
    \/ NoSubmit
    \/ CleanupButton
    \/ NoCleanup
    \/ \E search_key \in KeyTexts : Get(search_key)
    \/ BuildTable
    \/ Rerun
    \/ \E d \in Delays : Advance(d)

Spec == Init /\ [][Next]_vars

-----------------------------------------------------------------------------
(* The size accounting on its own: value_size_bytes applied to the values   *)
(* of two JSON object texts, as the SET handler applies it to parsed_value. *)

SizeTexts ==
    { <<"{", "}">>,
      <<" ", "{", "\"", "a", "\"", ":", "1", "}", "\n">>,
      <<"{", "\"", "b", "\"", ":", "2", ",", "\"", "a", "\"", ":", "1", "}">>,
      <<"{", "\"", "a", "\"", " ", ":", " ", "1", ",", " ",
        "\"", "b", "\"", ":", "2", "}">>,
      <<"{", "\"", "a", "\"", ":", "2", ",", "\"", "a", "\"", ":", "1", "}">>,
      <<"{", "\"", "b", "\"", ":", "1", "0", ",", "\"", "a", "\"", ":", "1", "}">>,
      <<"{", "\"", "a", "\"", ":", "1", ",", "\"", "b", "\"", ":", "1", "0", "}">>,
      <<"{", "\"", "a", "b", "\"", ":", "1", ",", "\"", "a", "\"", ":", "2", "}">>,
      <<"{", "\"", "a", "\"", ":", "2", ",", "\"", "a", "b", "\"", ":", "1", "}">>,
      <<"{", "\"", "B", "\"", ":", "1", ",", "\"", "a", "\"", ":", "2", ",",
        "\"", "b", "\"", ":", "3", "}">>,
      <<"{", "\"", "b", "\"", ":", "3", ",", "\"", "a", "\"", ":", "2", ",",
        "\"", "B", "\"", ":", "1", "}">> }

InitSize ==
    /\ kv_store = <<>>
    /\ clock = 0
    /\ advances = 0
    /\ pc = "form"
    /\ msg = None
    /\ get_out = None
    /\ status_df = None
    /\ last_set = [k \in StoreKeys |-> None]
    /\ revived = {}
    /\ size_in \in [first : SizeTexts, second : SizeTexts]
    /\ size_out = None

\* value_size_bytes is called on the value of each text, twice on the first
MeasureSize ==
    LET first == json_loads(size_in.first)
        second == json_loads(size_in.second)
    IN  /\ size_out = None
        /\ isinstance_dict(first) /\ isinstance_dict(second)
        /\ size_out' = [first |-> value_size_bytes(first),
                        again |-> value_size_bytes(first),
                        second |-> value_size_bytes(second)]
        /\ UNCHANGED <<kv_store, clock, advances, pc, msg, get_out,
                       status_df, last_set, revived, size_in>>

NextSize == MeasureSize

SpecSize == InitSize /\ [][NextSize]_vars

-----------------------------------------------------------------------------
(* Shorthands for the properties *)

TTL_TICKS == TTL_SECONDS * TicksPerSecond

\* the step is the "Guardar (SET)" handler
SetStep == pc = "form" /\ msg' # None /\ msg'.op = "SET"

\* the step is the "Borrar clave (DEL)" handler
DelStep == pc = "form" /\ msg' # None /\ msg'.op = "DEL"

\* the step is cleanup_expired, run by the cleanup button
CleanupStep == pc = "cleanup" /\ msg' # None /\ msg'.op = "CLEANUP"

\* the GET panel of this rerun looked the key k up
GetOf(k) == get_out # None /\ get_out.k = k

\* every key other than k has the same payload before and after the step
OthersUnchanged(k) ==
    /\ Keys(kv_store') \ {k} = Keys(kv_store) \ {k}
    /\ \A o \in Keys(kv_store) \ {k} : GetItem(kv_store', o) = GetItem(kv_store, o)

\* C1: after a successful SET(k, v), a GET(k) made while the entry's age is
\* at most the TTL, with no DEL or SET of k in between, reports k as found
\* and active and returns exactly v, whatever happened to other keys and
\* whatever cleanup passes ran in between.
C1_SetThenGet ==
    \A k \in StoreKeys :
        (/\ GetOf(k)
         /\ last_set[k] \notin {None, Deleted}
         /\ get_out.at - last_set[k].at <= TTL_TICKS)
        => /\ get_out.found
           /\ get_out.level = "success"
           /\ ~get_out.expired
           /\ get_out.val = last_set[k].value

\* C1 witness: a GET finds a key active some time after its SET, in a rerun
\* whose cleanup pass removed another key
C1_Witness ==
    /\ msg # None /\ msg.op = "CLEANUP" /\ msg.what > 0
    /\ \E k \in StoreKeys :
          /\ GetOf(k) /\ get_out.found /\ ~get_out.expired
          /\ last_set[k] \notin {None, Deleted}
          /\ get_out.at > last_set[k].at
          /\ get_out.val = last_set[k].value

\* C2: cleanup_expired(ttl) removes exactly the keys whose age exceeds ttl,
\* leaves every other key and its value and created_at untouched, and
\* returns the number of keys it removed.
C2_CleanupExact ==
    [][CleanupStep =>
          /\ Keys(kv_store') =
                {k \in Keys(kv_store) :
                    clock - GetItem(kv_store, k).created_at <= TTL_TICKS}
          /\ Len(kv_store') = Cardinality(Keys(kv_store'))
          /\ \A k \in Keys(kv_store') : GetItem(kv_store', k) = GetItem(kv_store, k)
          /\ msg'.what = Cardinality(Keys(kv_store) \ Keys(kv_store'))]_vars

\* C2 witness: a cleanup pass has just removed one key and kept another
C2_Witness ==
    /\ pc = "get" /\ msg # None /\ msg.op = "CLEANUP"
    /\ msg.what = 1
    /\ Len(kv_store) = 1

\* C3: DEL of a key k present in the store removes k and leaves every other
\* key and payload unchanged, and a later GET(k) with no SET(k) in between
\* reports that the key does not exist.
C3_DelThenGet ==
    /\ [][(DelStep /\ strip(msg'.key) \in Keys(kv_store)) =>
              /\ strip(msg'.key) \notin Keys(kv_store')
              /\ OthersUnchanged(strip(msg'.key))
              /\ msg'.level = "success"]_vars
    /\ [](\A k \in StoreKeys :
              (GetOf(k) /\ last_set[k] = Deleted)
              => ~get_out.found /\ get_out.level = "warning")

\* C3 witness: a GET reports a deleted key as missing while another key is
\* still in the store
C3_Witness ==
    /\ kv_store # <<>>
    /\ \E k \in StoreKeys :
          GetOf(k) /\ last_set[k] = Deleted /\ ~get_out.found

\* C4: entries leave the store only through DEL or the cleanup button: the
\* passage of time, a GET and the building of the status table leave the
\* store as it is, so an entry older than the TTL stays in the store, and a
\* GET still returns its value, flagged as expired.
C4_OnlyExplicitRemoval ==
    /\ [][/\ (Keys(kv_store) \ Keys(kv_store') # {}) =>
                 (\/ DelStep /\ msg'.level = "success"
                  \/ CleanupStep /\ msg'.level = "success")
          /\ (pc \in {"get", "table", "done"} \/ clock' # clock) =>
                 kv_store' = kv_store]_vars
    /\ [](\A k \in StoreKeys :
              (GetOf(k) /\ k \in Keys(kv_store))
              => /\ get_out.found
                 /\ get_out.val = GetItem(kv_store, k).value
                 /\ (get_out.at - GetItem(kv_store, k).created_at > TTL_TICKS)
                       => get_out.expired /\ get_out.level = "warning")

\* C4 witness: the rerun is over, its GET returned the value of an entry
\* older than the TTL, flagged as expired, and the entry is still stored
C4_Witness ==
    /\ pc = "done" /\ status_df # None
    /\ \E k \in StoreKeys :
          /\ GetOf(k) /\ get_out.found /\ get_out.expired
          /\ k \in Keys(kv_store)
          /\ clock - GetItem(kv_store, k).created_at > 2 * TTL_TICKS

\* C5: a SET whose value text is not valid JSON, or parses to JSON that is
\* not an object, is rejected and leaves the store unchanged: a write
\* happens only when the text parses to a JSON object.
C5_InvalidJsonRejected ==
    [][SetStep =>
          /\ (json_loads(msg'.value_text) = JSONDecodeError
              \/ json_loads(msg'.value_text).type # "dict")
                => msg'.level = "error" /\ kv_store' = kv_store
          /\ (kv_store' # kv_store \/ msg'.level = "success")
                => /\ json_loads(msg'.value_text).type = "dict"
                   /\ strip(msg'.key) \in Keys(kv_store')
                   /\ GetItem(kv_store', strip(msg'.key)).value =
                         json_loads(msg'.value_text)]_vars

\* C5 witness: a SET of JSON that is valid but no object has just been
\* rejected for a key that is in the store
C5_Witness ==
    /\ pc = "get" /\ msg # None /\ msg.op = "SET" /\ msg.level = "error"
    /\ json_loads(msg.value_text).type = "list"
    /\ strip(msg.key) \in Keys(kv_store)

\* C6: a SET or a DEL whose key is empty after stripping surrounding
\* whitespace is rejected and leaves the store unchanged.
C6_EmptyKeyRejected ==
    [][((SetStep \/ DelStep) /\ strip(msg'.key) = <<>>) =>
          msg'.level = "error" /\ kv_store' = kv_store]_vars

\* C6 witness: a SET of a valid JSON object under a key of whitespace only
\* has just been rejected, the store holding entries
C6_Witness ==
    /\ pc = "get" /\ msg # None /\ msg.op = "SET" /\ msg.level = "error"
    /\ msg.key # <<>> /\ strip(msg.key) = <<>>
    /\ json_loads(msg.value_text).type = "dict"
    /\ kv_store # <<>>

\* C7: a DEL of a key that is not in the store is reported as a warning and
\* is a no-op: the store after it equals the store before it.
C7_DelMissingNoop ==
    [][(DelStep /\ strip(msg'.key) # <<>>
               /\ strip(msg'.key) \notin Keys(kv_store)) =>
          msg'.level = "warning" /\ kv_store' = kv_store]_vars

\* C7 witness: a DEL of a missing key has just been reported as a warning,
\* the store holding another key
C7_Witness ==
    /\ pc = "get" /\ msg # None /\ msg.op = "DEL" /\ msg.level = "warning"
    /\ kv_store # <<>>
    /\ strip(msg.key) \notin Keys(kv_store)

\* C8: is_expired(created_at, ttl) is true iff now() - created_at > ttl, a
\* strict comparison: an entry whose age equals ttl exactly is not expired,
\* is shown as active by GET and is not removed by cleanup_expired.
C8_StrictExpiry ==
    /\ [](\A e \in {kv_store[i] : i \in 1..Len(kv_store)} :
              is_expired(e.created_at, TTL_SECONDS)
                 <=> clock - e.created_at > TTL_TICKS)
    /\ [](\A k \in StoreKeys :
              (GetOf(k) /\ k \in Keys(kv_store)
                  /\ get_out.at - GetItem(kv_store, k).created_at = TTL_TICKS)
              => get_out.found /\ ~get_out.expired /\ get_out.level = "success")
    /\ [][CleanupStep =>
              \A k \in Keys(kv_store) :
                  (clock - GetItem(kv_store, k).created_at = TTL_TICKS)
                  => /\ k \in Keys(kv_store')
                     /\ GetItem(kv_store', k) = GetItem(kv_store, k)]_vars

\* C8 witness: after a cleanup pass, the GET of the same rerun shows as
\* active an entry whose age is exactly the TTL
C8_Witness ==
    /\ msg # None /\ msg.op = "CLEANUP"
    /\ \E k \in StoreKeys :
          /\ GetOf(k) /\ get_out.found /\ ~get_out.expired
          /\ k \in Keys(kv_store)
          /\ get_out.at - GetItem(kv_store, k).created_at = TTL_TICKS

\* the rows of the status table of this rerun
Rows == status_df.rows

\* the stored entry a row of the table is about
EntryOf(row) == GetItem(kv_store, row.cliente_id)

\* the age, in ticks, of a row's entry at the table's time snapshot
AgeAtSnapshot(row) == status_df.at - EntryOf(row).created_at

\* what C9 says of every row but its remaining TTL: one row per stored key,
\* the state by the age at the snapshot, the size of the stored value
C9_RowsOfStore ==
    /\ Len(Rows) = Len(kv_store)
    /\ {Rows[i].cliente_id : i \in 1..Len(Rows)} = Keys(kv_store)
    /\ Cardinality(Keys(kv_store)) = Len(Rows)
    /\ \A i \in 1..Len(Rows) :
          /\ Rows[i].estado \in {"Activa", "Expirada"}
          /\ Rows[i].estado = "Expirada" <=> AgeAtSnapshot(Rows[i]) > TTL_TICKS
          /\ Rows[i].restante_seg >= 0
          /\ Rows[i].estado = "Expirada" => Rows[i].restante_seg = 0
          /\ Rows[i].size_bytes = value_size_bytes(EntryOf(Rows[i]).value)
          /\ Rows[i].size_bytes = Len(json_dumps(EntryOf(Rows[i]).value))

\* C9 (as stated): build_status_table(ttl) produces exactly one row per
\* stored key; a row is 'Expirada' iff the entry's age at the table's time
\* snapshot exceeds ttl, its remaining TTL is max(0, ttl - age), never
\* negative and 0 for every 'Expirada' row, and its size is value_size_bytes
\* of the stored value.
C9_StatusRows_Original ==
    status_df # None =>
        /\ C9_RowsOfStore
        /\ \A i \in 1..Len(Rows) :
              Rows[i].restante_seg * TicksPerSecond =
                 Max(0, TTL_TICKS - AgeAtSnapshot(Rows[i]))

\* C9 (amended): as stated, but the remaining TTL of a row is
\* max(0, int(ttl - age)): the whole seconds left, the fraction of a second
\* dropped.
C9_StatusRows ==
    status_df # None =>
        /\ C9_RowsOfStore
        /\ \A i \in 1..Len(Rows) :
              LET left == TTL_TICKS - AgeAtSnapshot(Rows[i])
                  r == Rows[i].restante_seg
              IN  IF left <= 0 THEN r = 0
                  ELSE /\ r * TicksPerSecond <= left
                       /\ left < (r + 1) * TicksPerSecond

\* C9 witness: the table has an 'Expirada' row and an 'Activa' row whose
\* entry has a fraction of a second of age and whole seconds left
C9_Witness ==
    /\ status_df # None
    /\ \E i, j \in 1..Len(Rows) :
          /\ Rows[i].estado = "Expirada"
          /\ AgeAtSnapshot(Rows[i]) >= TTL_TICKS + TicksPerSecond
          /\ Rows[j].estado = "Activa"
          /\ AgeAtSnapshot(Rows[j]) % TicksPerSecond # 0
          /\ Rows[j].restante_seg > 0

\* C10 (as stated): the rows are sorted by status, then by size and age
\* descending: the rows of one status come before the rows of the other, and
\* within one status a row is followed by rows of smaller size, or of equal
\* size and of equal or smaller age.
C10_SortOrder_Original ==
    status_df # None =>
        /\ \A i, j, l \in 1..Len(Rows) :
              (i < j /\ j < l /\ Rows[i].estado = Rows[l].estado)
              => Rows[j].estado = Rows[i].estado
        /\ \A i, j \in 1..Len(Rows) :
              (i < j /\ Rows[i].estado = Rows[j].estado)
              => \/ Rows[i].size_bytes > Rows[j].size_bytes
                 \/ /\ Rows[i].size_bytes = Rows[j].size_bytes
                    /\ Rows[i].edad_seg >= Rows[j].edad_seg

\* C10 (amended): the rows of one status come before the rows of the other
\* (the 'Activa' rows first), and within one status the rows are in
\* descending order of size; the age is no sort key.
C10_SortOrder ==
    status_df # None =>
        /\ \A i, j, l \in 1..Len(Rows) :
              (i < j /\ j < l /\ Rows[i].estado = Rows[l].estado)
              => Rows[j].estado = Rows[i].estado
        /\ \A i, j \in 1..Len(Rows) :
              i < j => ~(Rows[i].estado = "Expirada" /\ Rows[j].estado = "Activa")
        /\ \A i, j \in 1..Len(Rows) :
              (i < j /\ Rows[i].estado = Rows[j].estado)
              => Rows[i].size_bytes >= Rows[j].size_bytes

\* C10 witness: the sort has moved a row: the key stored first comes second
\* in the table, after a row of the same status and of greater size
C10_Witness ==
    /\ status_df # None
    /\ Len(Rows) = 2
    /\ Rows[1].cliente_id = kv_store[2].k
    /\ Rows[1].estado = Rows[2].estado
    /\ Rows[1].size_bytes > Rows[2].size_bytes

\* the key/value pairs of a dict, whatever their order
ItemSet(value) == {value.items[i] : i \in 1..Len(value.items)}

\* C11: value_size_bytes is deterministic for a given value: two calls on
\* the same value return the same number, and two JSON objects with the same
\* key/value pairs in a different key order serialize to the same text (the
\* keys are sorted) and so have the same size; the call changes neither the
\* value measured nor the store.
C11_SizeDeterministic ==
    size_out # None =>
        LET first == json_loads(size_in.first)
            second == json_loads(size_in.second)
        IN  /\ size_out.again = size_out.first
            /\ ItemSet(first) = ItemSet(second) =>
                  /\ size_out.first = size_out.second
                  /\ json_dumps(first) = json_dumps(second)
            /\ size_out.first = encode_utf8_len(json_dumps(first))
            /\ \A i, j \in 1..Len(first.items) :
                  i < j => ~StrLess(SortItems(first.items)[j].k,
                                    SortItems(first.items)[i].k)
            /\ kv_store = <<>>

\* C11 witness: two objects of three members each, the same pairs in a
\* different key order, have been measured
C11_Witness ==
    /\ size_out # None
    /\ json_loads(size_in.first) # json_loads(size_in.second)
    /\ ItemSet(json_loads(size_in.first)) = ItemSet(json_loads(size_in.second))
    /\ Len(json_loads(size_in.first).items) = 3
    /\ size_out.first = size_out.second

\* C12: a successful SET on a key already in the store replaces its value
\* and its created_at by the new value and the current time; the key maps
\* to a single payload; a key that was expired is active again: the GET
\* after the SET, and a cleanup pass before the TTL elapses again, find it
\* active and do not remove it.
C12_Overwrite ==
    /\ [][(SetStep /\ msg'.level = "success"
                   /\ strip(msg'.key) \in Keys(kv_store)) =>
              /\ GetItem(kv_store', strip(msg'.key)) =
                    [value |-> json_loads(msg'.value_text), created_at |-> clock]
              /\ Len(kv_store') = Len(kv_store)
              /\ OthersUnchanged(strip(msg'.key))]_vars
    /\ [](Cardinality(Keys(kv_store)) = Len(kv_store))
    /\ [](\A k \in revived :
              /\ k \in Keys(kv_store)
              /\ GetItem(kv_store, k).created_at = last_set[k].at
              /\ (GetOf(k) /\ get_out.at - last_set[k].at <= TTL_TICKS)
                    => /\ get_out.found /\ ~get_out.expired
                       /\ get_out.level = "success"
                       /\ get_out.val = last_set[k].value)
    /\ [][CleanupStep =>
              \A k \in StoreKeys :
                  (/\ last_set[k] \notin {None, Deleted}
                   /\ clock - last_set[k].at <= TTL_TICKS)
                  => /\ k \in Keys(kv_store')
                     /\ GetItem(kv_store', k).value = last_set[k].value]_vars

\* C12 witness: a SET has replaced an expired entry and, some time later in
\* the rerun, the GET panel shows the key as active, next to another key
C12_Witness ==
    /\ \E k \in revived :
          /\ GetOf(k) /\ get_out.found /\ ~get_out.expired
          /\ get_out.at > last_set[k].at
    /\ Len(kv_store) = 2

\* C13: in every state reached from the empty store by SET, DEL, cleanup,
\* GET and clock advances, every key of the store is a non-empty string
\* that neither starts nor ends with whitespace, every payload's value is a
\* JSON object, and every created_at is at most the current time.
C13_StoreWellFormed ==
    \A i \in 1..Len(kv_store) :
        /\ Len(kv_store[i].k) > 0
        /\ kv_store[i].k[1] \notin Whitespace
        /\ kv_store[i].k[Len(kv_store[i].k)] \notin Whitespace
        /\ DOMAIN kv_store[i] = {"k", "value", "created_at"}
        /\ kv_store[i].value.type = "dict"
        /\ kv_store[i].created_at <= clock

\* C13 witness: a SET whose key text carried surrounding whitespace has
\* succeeded, the store holds two entries and one of them is older than now
C13_Witness ==
    /\ msg # None /\ msg.op = "SET" /\ msg.level = "success"
    /\ msg.key # strip(msg.key)
    /\ Contains(kv_store, strip(msg.key))
    /\ Len(kv_store) = 2
    /\ \E i \in 1..Len(kv_store) : kv_store[i].created_at < clock

\* C14: cleanup_expired is idempotent while the clock stands still: right
\* after a cleanup pass no entry left in the store is expired, a second call
\* at the same clock value returns 0 and leaves the store as it is, and so
\* does any pass that starts with no expired entry.
C14_CleanupIdempotent ==
    [][CleanupStep =>
          /\ clock' = clock
          /\ \A i \in 1..Len(kv_store') :
                 clock' - kv_store'[i].created_at <= TTL_TICKS
          /\ (cleanup_expired(TTL_SECONDS))' = [store |-> kv_store', removed |-> 0]
          /\ (\A i \in 1..Len(kv_store) : clock - kv_store[i].created_at <= TTL_TICKS)
                 => (msg'.what = 0 /\ kv_store' = kv_store)]_vars

\* C14 witness: a cleanup pass has just removed expired entries and left
\* another entry in the store
C14_Witness ==
    /\ pc = "get"
    /\ msg # None /\ msg.op = "CLEANUP" /\ msg.what > 0
    /\ Len(kv_store) >= 1

\* the GET panel of this rerun reported key k, found and expired
GetSaysExpired(k) == GetOf(k) /\ get_out.found /\ get_out.expired

\* the GET panel of this rerun reported key k, found and active
GetSaysActive(k) == GetOf(k) /\ get_out.found /\ ~get_out.expired

\* the first half of C15: the key GET reported as expired is in the table
\* built later in the same rerun, listed as 'Expirada'
C15_ExpiredStaysExpired ==
    \A k \in StoreKeys :
        GetSaysExpired(k) =>
            /\ \E i \in 1..Len(Rows) : Rows[i].cliente_id = k
            /\ \A i \in 1..Len(Rows) :
                   Rows[i].cliente_id = k =>
                       /\ Rows[i].estado = "Expirada"
                       /\ status_df.at >= get_out.at

\* C15 as stated: within one rerun, every key GET reports as expired is
\* listed as 'Expirada' in the table built later, and every key the table
\* lists as 'Activa' was reported as active by a GET of that key earlier in
\* the rerun. The GET panel reports on one key at most, so a table with an
\* active key that was not searched for violates the second half.
C15_ReportsAgree_Original ==
    status_df # None =>
        /\ C15_ExpiredStaysExpired
        /\ \A i \in 1..Len(Rows) :
               Rows[i].estado = "Activa" => GetSaysActive(Rows[i].cliente_id)

\* C15: within one rerun, every key GET reports as expired is listed as
\* 'Expirada' in the table built later, and every key the table lists as
\* 'Activa' that the GET panel of the rerun reported on was found and
\* reported as active by it; keys the panel did not report on are listed
\* without any GET report.
C15_ReportsAgree ==
    status_df # None =>
        /\ C15_ExpiredStaysExpired
        /\ \A i \in 1..Len(Rows) :
               (Rows[i].estado = "Activa" /\ GetOf(Rows[i].cliente_id))
                   => GetSaysActive(Rows[i].cliente_id)

\* C15 witness: the table, built later than the GET of the rerun, lists the
\* key GET reported as expired as 'Expirada' and another, not searched for,
\* as 'Activa'
C15_Witness ==
    /\ status_df # None
    /\ status_df.at > get_out.at
    /\ \E i, j \in 1..Len(Rows) :
           /\ GetSaysExpired(Rows[i].cliente_id)
           /\ Rows[i].estado = "Expirada"
           /\ Rows[j].estado = "Activa"

====
